---- MODULE Spec2Model ----
(***************************************************************************)
(* Model of src/solar_app.py: the "Run Full Analysis" handler of the Solar *)
(* Smart dashboard (weather fetch, PV derating and bill arithmetic, the    *)
(* dashboard rendering and the two error branches).                        *)
(*                                                                         *)
(* The arithmetic of the handler is Python float arithmetic, i.e. IEEE-754 *)
(* binary64 with round-to-nearest-even.  It is modelled bit-exactly: a     *)
(* float is a sign, a 53-bit significand and the exponent of its last bit. *)
(* Significands do not fit TLC's integers, so they are kept as sequences   *)
(* of 15-bit limbs, least significant first.  Exponent overflow, subnormal *)
(* numbers and the sign of zero are outside the model: no input of the     *)
(* model comes near them.                                                  *)
(***************************************************************************)
EXTENDS Integers, Sequences, FiniteSets

(***************************************************************************)
(* Natural numbers of arbitrary size: sequences of limbs, least            *)
(* significant first, without leading zero limbs; <<>> is 0.               *)
(***************************************************************************)
LimbBits == 15
Base == 2^LimbBits

Limb(a, i) == IF i <= Len(a) THEN a[i] ELSE 0

RECURSIVE BNorm(_)
BNorm(a) ==
  IF a = <<>> THEN a
  ELSE IF a[Len(a)] = 0 THEN BNorm(SubSeq(a, 1, Len(a) - 1)) ELSE a

RECURSIVE BFromInt(_)
BFromInt(n) == IF n = 0 THEN <<>> ELSE <<n % Base>> \o BFromInt(n \div Base)

RECURSIVE BToInt(_)
BToInt(a) == IF a = <<>> THEN 0 ELSE a[1] + Base * BToInt(Tail(a))

RECURSIVE BAddC(_, _, _, _)
BAddC(a, b, i, c) ==
  IF i > Len(a) /\ i > Len(b) THEN (IF c = 0 THEN <<>> ELSE <<c>>)
  ELSE LET s == Limb(a, i) + Limb(b, i) + c
       IN  <<s % Base>> \o BAddC(a, b, i + 1, s \div Base)

BAdd(a, b) == BAddC(a, b, 1, 0)

RECURSIVE BSubC(_, _, _, _)
BSubC(a, b, i, c) ==
  IF i > Len(a) THEN <<>>
  ELSE LET s == a[i] - Limb(b, i) - c
       IN  IF s < 0 THEN <<s + Base>> \o BSubC(a, b, i + 1, 1)
                    ELSE <<s>> \o BSubC(a, b, i + 1, 0)

\* a - b for a >= b
BSub(a, b) == BNorm(BSubC(a, b, 1, 0))

RECURSIVE BCmpAt(_, _, _)
BCmpAt(a, b, i) ==
  IF i = 0 THEN 0
  ELSE IF a[i] < b[i] THEN -1
  ELSE IF a[i] > b[i] THEN 1
  ELSE BCmpAt(a, b, i - 1)

\* -1, 0 or 1 as a < b, a = b, a > b
BCmp(a, b) ==
  IF Len(a) < Len(b) THEN -1
  ELSE IF Len(a) > Len(b) THEN 1
  ELSE BCmpAt(a, b, Len(a))

RECURSIVE BMulSmallC(_, _, _, _)
BMulSmallC(a, k, i, c) ==
  IF i > Len(a) THEN (IF c = 0 THEN <<>> ELSE <<c>>)
  ELSE LET p == a[i] * k + c
       IN  <<p % Base>> \o BMulSmallC(a, k, i + 1, p \div Base)

\* a * k for 0 <= k <= Base
BMulSmall(a, k) == IF k = 0 THEN <<>> ELSE BMulSmallC(a, k, 1, 0)

BShlLimbs(a, n) == IF a = <<>> THEN a ELSE [i \in 1..n |-> 0] \o a

RECURSIVE BMulAt(_, _, _)
BMulAt(a, b, j) ==
  IF j > Len(b) THEN <<>>
  ELSE BAdd(BShlLimbs(BMulSmall(a, b[j]), j - 1), BMulAt(a, b, j + 1))

BMul(a, b) == BMulAt(a, b, 1)

\* a * 2^n
BShl(a, n) == BShlLimbs(BMulSmall(a, 2^(n % LimbBits)), n \div LimbBits)

\* Division by a small number 0 < k <= Base, from limb i of a downwards with
\* the remainder r carried in: [q, r] with a = q*k + r
RECURSIVE BDivSmallC(_, _, _, _)
BDivSmallC(a, k, i, r) ==
  IF i = 0 THEN [q |-> <<>>, r |-> r]
  ELSE LET v == r * Base + a[i]
           rest == BDivSmallC(a, k, i - 1, v % k)
       IN  [q |-> Append(rest.q, v \div k), r |-> rest.r]

BDivModSmall(a, k) ==
  LET d == BDivSmallC(a, k, Len(a), 0) IN [q |-> BNorm(d.q), r |-> d.r]

\* floor(a / 2^n)
BShr(a, n) ==
  LET l == n \div LimbBits
  IN  IF l >= Len(a) THEN <<>>
      ELSE BDivModSmall(SubSeq(a, l + 1, Len(a)), 2^(n % LimbBits)).q

RECURSIVE IntBitLen(_)
IntBitLen(n) == IF n = 0 THEN 0 ELSE 1 + IntBitLen(n \div 2)

BBitLen(a) ==
  IF a = <<>> THEN 0 ELSE (Len(a) - 1) * LimbBits + IntBitLen(a[Len(a)])

\* bit i of a (bit 0 is the least significant)
BBit(a, i) == (Limb(a, i \div LimbBits + 1) \div 2^(i % LimbBits)) % 2

\* some bit of a below bit n is set
BLowNonZero(a, n) ==
  \/ \E i \in 1..(n \div LimbBits) : Limb(a, i) # 0
  \/ Limb(a, n \div LimbBits + 1) % 2^(n % LimbBits) # 0

BIsOdd(a) == a # <<>> /\ a[1] % 2 = 1

(***************************************************************************)
(* Python floats.  [sg, m, e] stands for sg * m * 2^e with sg in -1, 0, 1  *)
(* and m of exactly MantBits bits (m = <<>>, e = 0 for zero), so that      *)
(* equal numbers are equal records.                                        *)
(***************************************************************************)
MantBits == 53

FZero == [sg |-> 0, m |-> <<>>, e |-> 0]

\* sg * n * 2^e rounded to the nearest float, ties to even
FRound(sg, n, e) ==
  IF sg = 0 \/ n = <<>> THEN FZero
  ELSE LET L == BBitLen(n)
       IN  IF L <= MantBits
           THEN [sg |-> sg, m |-> BShl(n, MantBits - L), e |-> e - (MantBits - L)]
           ELSE LET sh == L - MantBits
                    q == BShr(n, sh)
                    up == BBit(n, sh - 1) = 1
                          /\ (BLowNonZero(n, sh - 1) \/ BIsOdd(q))
                    q1 == IF up THEN BAdd(q, <<1>>) ELSE q
                IN  IF BBitLen(q1) > MantBits
                    THEN [sg |-> sg, m |-> BShr(q1, 1), e |-> e + sh + 1]
                    ELSE [sg |-> sg, m |-> q1, e |-> e + sh]

Abs(n) == IF n < 0 THEN -n ELSE n
Sign(n) == IF n < 0 THEN -1 ELSE IF n > 0 THEN 1 ELSE 0

\* float(n) for a Python int n
FromInt(n) == FRound(Sign(n), BFromInt(Abs(n)), 0)

FNeg(x) == [x EXCEPT !.sg = -x.sg]

\* x * y
FMul(x, y) == FRound(x.sg * y.sg, BMul(x.m, y.m), x.e + y.e)

\* -1, 0, 1 as |x| < |y|, |x| = |y|, |x| > |y|, for x and y not zero
FCmpMag(x, y) ==
  IF x.e < y.e THEN -1 ELSE IF x.e > y.e THEN 1 ELSE BCmp(x.m, y.m)

\* -1, 0, 1 as x < y, x = y, x > y
FCmp(x, y) ==
  IF x.sg # y.sg THEN (IF x.sg < y.sg THEN -1 ELSE 1)
  ELSE IF x.sg = 0 THEN 0
  ELSE x.sg * FCmpMag(x, y)

FLt(x, y) == FCmp(x, y) < 0
FLe(x, y) == FCmp(x, y) <= 0

\* An operand more than GuardBits binary places below the other one only
\* decides the direction of rounding: it is replaced by one unit that far down.
GuardBits == 64

\* x + y
FAdd(x, y) ==
  IF x.sg = 0 THEN y
  ELSE IF y.sg = 0 THEN x
  ELSE LET big == IF FCmpMag(x, y) >= 0 THEN x ELSE y
           sml0 == IF FCmpMag(x, y) >= 0 THEN y ELSE x
           sml == IF big.e - sml0.e > GuardBits
                  THEN [sg |-> sml0.sg, m |-> <<1>>, e |-> big.e - GuardBits]
                  ELSE sml0
           bm == BShl(big.m, big.e - sml.e)
       IN  IF big.sg = sml.sg
           THEN FRound(big.sg, BAdd(bm, sml.m), sml.e)
           ELSE FRound(big.sg, BSub(bm, sml.m), sml.e)

\* x - y
FSub(x, y) == FAdd(x, FNeg(y))

\* x / d for a Python int d with 0 < |d| < Base (the int converts to a float
\* exactly, and the quotient of the two floats is rounded once): the quotient
\* of the significand by |d| to MantBits + 2 or more bits, with one more bit
\* that records a remainder
FDivInt(x, d) ==
  IF x.sg = 0 THEN FZero
  ELSE LET dm == BDivModSmall(BShl(x.m, LimbBits + 2), Abs(d))
           n == BAdd(BMulSmall(dm.q, 2), IF dm.r = 0 THEN <<>> ELSE <<1>>)
       IN  FRound(x.sg * Sign(d), n, x.e - (LimbBits + 2) - 1)

\* n / d for Python ints (true division), which is also the float that the
\* decimal literal "n/d" denotes when d is a power of ten
FromRatio(n, d) == FDivInt(FromInt(n), d)

\* The integer that format(x, ".0f") prints for |x| < 2^30: the nearest
\* integer to the exact value of x, ties to even
FRoundToInt(x) ==
  IF x.sg = 0 THEN 0
  ELSE IF x.e >= 0 THEN x.sg * BToInt(BShl(x.m, x.e))
  ELSE LET sh == -x.e
           q == BShr(x.m, sh)
           up == BBit(x.m, sh - 1) = 1
                 /\ (BLowNonZero(x.m, sh - 1) \/ BIsOdd(q))
       IN  x.sg * (BToInt(q) + (IF up THEN 1 ELSE 0))


\* Python's max(0, x): x when x > 0, else the int 0
Max0(x) == IF FLt(FZero, x) THEN x ELSE FZero

(***************************************************************************)
(* Bounds of the model and the values its inputs are drawn from.           *)
(***************************************************************************)
\* "Run Full Analysis" is pressed at most MaxRuns times
MaxRuns == 2

\* System Size (kW), in tenths: -1.0, 0.5, 5.0 (the widget sets no minimum)
PanelPowerTenths == {-10, 5, 50}
\* Monthly Usage (kWh), a Python int (the widget sets no minimum)
MonthlyUsages == {-350, 0, 350, 3500}
\* Electricity Rate, in tenths: -1.0, 0.0, 8.0 (the widget sets no minimum)
TariffTenths == {-10, 0, 80}
\* clouds.all of the weather report, a whole percentage
CloudValues == {0, 50, 100}
\* main.temp of the weather report, in hundredths of a kelvin:
\* 0, 25, 25.01, 45, 224.99, 225 and 425 degrees Celsius
TempHundredths == {27315, 29815, 29816, 31815, 49814, 49815, 69815}
Cities == {"known", "unknown"}
ApiKeys == {"missing", "invalid", "valid"}

PanelPowers == {FromRatio(n, 10) : n \in PanelPowerTenths}
Tariffs == {FromRatio(n, 10) : n \in TariffTenths}
TempsK == {FromRatio(h, 100) : h \in TempHundredths}

\* A local variable that is not bound yet
None == [none |-> TRUE]

(***************************************************************************)
(* The state: the widgets, the deployment's secret, the locals of the      *)
(* handler, what the page shows, and where the handler stands.             *)
(***************************************************************************)
VARIABLES
  pc,                 \* position of the script
  runs,               \* presses of "Run Full Analysis" so far
  city,               \* City Name: whether the weather service knows it
  panel_power,        \* System Size (kW), a float
  monthly_usage,      \* Monthly Usage (kWh), an int
  tariff,             \* Electricity Rate, a float
  api_key,            \* st.secrets["OPENWEATHER_KEY"]: missing, invalid, valid
  response,           \* what requests.get returned
  data,               \* response.json()
  clouds, temp_k, temp_c,
  cloud_efficiency, heat_loss, temp_efficiency,
  actual_power, daily_production, monthly_production,
  old_bill, net_usage, new_bill, savings,
  pos,                \* next call of the dashboard to make
  shown,              \* elements of the dashboard on the page
  coverage,           \* percentage printed by the success message
  error,              \* the st.error message on the page
  exc,                \* the exception raised, if any
  prev                \* the calculation before this one (pairs of snapshots)

widgets == <<city, panel_power, monthly_usage, tariff>>
mined == <<clouds, temp_k, temp_c>>
results == <<cloud_efficiency, heat_loss, temp_efficiency, actual_power,
             daily_production, monthly_production, old_bill, net_usage,
             new_bill, savings>>
page == <<pos, shown, coverage, error>>
vars == <<pc, runs, widgets, api_key, response, data, mined, results, page,
          exc, prev>>

(***************************************************************************)
(* The calculation, lines 73 to 92, one operator per assignment.           *)
(***************************************************************************)
KelvinOffset == FromRatio(27315, 100)      \* 273.15
FullCloudLoss == FromRatio(8, 10)          \* 0.8
LossPerDegree == FromRatio(5, 1000)        \* 0.005
RatedTemp == 25
PeakSunHours == 5
DaysPerMonth == 30
PerCent == 100

\* temp_c = temp_k - 273.15
TempC(tk) == FSub(tk, KelvinOffset)

\* CloudEfficiency with the "1 -" forgotten: the loss in place of what is left
CloudEfficiencyLossOnly(c) == FMul(FromRatio(c, PerCent), FullCloudLoss)

\* cloud_efficiency = 1 - (clouds / 100 * 0.8), clouds an int
CloudEfficiency(c) ==
  FSub(FromInt(1), FMul(FromRatio(c, PerCent), FullCloudLoss))

\* HeatLoss with 5% per degree in place of 0.5%
HeatLossSteep(tc) ==
  Max0(FMul(FSub(tc, FromInt(RatedTemp)), FromRatio(5, 100)))

\* HeatLoss without the max(0, ...): a bonus below the rated temperature
HeatLossNoFloor(tc) == FMul(FSub(tc, FromInt(RatedTemp)), LossPerDegree)

\* heat_loss = max(0, (temp_c - 25) * 0.005)
HeatLoss(tc) == Max0(FMul(FSub(tc, FromInt(RatedTemp)), LossPerDegree))

\* temp_efficiency = 1 - heat_loss
TempEfficiency(hl) == FSub(FromInt(1), hl)

\* actual_power = panel_power * cloud_efficiency * temp_efficiency
ActualPower(pp, ce, te) == FMul(FMul(pp, ce), te)

\* DailyProduction with 6 peak sun hours
DailyProductionSixHours(ap) == FMul(ap, FromInt(PeakSunHours + 1))

\* daily_production = actual_power * 5
DailyProduction(ap) == FMul(ap, FromInt(PeakSunHours))

\* monthly_production = daily_production * 30
MonthlyProduction(dp) == FMul(dp, FromInt(DaysPerMonth))

\* old_bill = monthly_usage * tariff, monthly_usage an int
OldBill(mu, t) == FMul(FromInt(mu), t)

\* NetUsage without the max(0, ...): excess production counted as export
NetUsageNoFloor(mu, mp) == FSub(FromInt(mu), mp)

\* net_usage = max(0, monthly_usage - monthly_production)
NetUsage(mu, mp) == Max0(FSub(FromInt(mu), mp))

\* new_bill = net_usage * tariff
NewBill(nu, t) == FMul(nu, t)

\* Savings with the operands swapped
SavingsSwapped(ob, nb) == FSub(nb, ob)

\* savings = old_bill - new_bill
Savings(ob, nb) == FSub(ob, nb)

\* min(100, (monthly_production / monthly_usage) * 100), for monthly_usage # 0
CoverageValue(mp, mu) ==
  LET v == FMul(FDivInt(mp, mu), FromInt(PerCent))
  IN  IF FLt(v, FromInt(PerCent)) THEN v ELSE FromInt(PerCent)

\* the text of format(..., ".0f") in the success message, as a number
CoverageShown(mp, mu) == FRoundToInt(CoverageValue(mp, mu))

(***************************************************************************)
(* The weather service, as the handler sees it through requests.get: it    *)
(* answers 401 to a key it does not accept, 404 to a city it cannot        *)
(* resolve, and otherwise 200 with a report or 500.  A 200 answer usually  *)
(* holds a report with a whole cloud percentage and a temperature; the     *)
(* model also lets it hold a body that is no JSON, a JSON that lacks one   *)
(* of the fields read at lines 71 to 75, or a field that is not a number.  *)
(* A body is a record: json says whether response.json() can parse it,     *)
(* keys are the fields it has, numbers the fields whose value is a number, *)
(* clouds and temp the two values the calculation uses.  The values of     *)
(* the coordinates are only handed to st.map and are left out.             *)
(***************************************************************************)
StatusOk == 200
StatusUnauthorized == 401
StatusNotFound == 404
StatusServerError == 500

ServerStatuses(key, c) ==
  IF key = "invalid" THEN {StatusUnauthorized}
  ELSE IF c = "unknown" THEN {StatusNotFound}
  ELSE {StatusOk, StatusServerError}

\* The fields that lines 71 to 75 read: data["clouds"]["all"],
\* data["main"]["temp"], data["coord"]["lat"] and data["coord"]["lon"]
Fields == {"clouds", "temp", "lat", "lon"}

\* JSON null (Python None) and a JSON string, as the value of a field
Null == [null |-> TRUE]
Text(s) == [text |-> s]

\* The body of a 200 answer with a weather report
Report(c, t) ==
  [json |-> TRUE, keys |-> Fields, numbers |-> Fields, clouds |-> c,
   temp |-> t]

\* The body of an error answer: a JSON with a code and a message
ErrorBody ==
  [json |-> TRUE, keys |-> {}, numbers |-> {}, clouds |-> None, temp |-> None]

\* The bodies of a 200 answer that hold no usable report
BadBodies ==
  {"not_json", "no_clouds", "no_temp", "no_coord", "no_lon", "temp_text",
   "temp_null", "clouds_text"}

\* The report of 50% clouds at 298.15 K, with the defect b
BadBody(b) ==
  LET r == Report(50, FromRatio(29815, 100))
      Without(ks) == [r EXCEPT !.keys = Fields \ ks, !.numbers = Fields \ ks]
  IN  CASE b = "not_json" ->
             [json |-> FALSE, keys |-> {}, numbers |-> {}, clouds |-> None,
              temp |-> None]
        [] b = "no_clouds" -> [Without({"clouds"}) EXCEPT !.clouds = None]
        [] b = "no_temp" -> [Without({"temp"}) EXCEPT !.temp = None]
        [] b = "no_coord" -> Without({"lat", "lon"})
        [] b = "no_lon" -> Without({"lon"})
        [] b = "temp_text" ->
             [r EXCEPT !.numbers = Fields \ {"temp"}, !.temp = Text("hot")]
        [] b = "temp_null" ->
             [r EXCEPT !.numbers = Fields \ {"temp"}, !.temp = Null]
        [] b = "clouds_text" ->
             [r EXCEPT !.numbers = Fields \ {"clouds"},
                       !.clouds = Text("50")]

\* Lines 68 to 79 do not raise on the body: it is a JSON that holds every
\* field of lines 71 to 75, and the two that are computed with (line 73,
\* line 79) are numbers
WellFormed(b) ==
  b.json /\ b.keys = Fields /\ {"clouds", "temp"} \subseteq b.numbers

\* The calls that draw the dashboard, in the order of lines 99 to 158
Dashboard ==
  << "subheader_environment", "map", "metric_cloud_cover", "metric_temperature",
     "metric_output", "subheader_performance", "chart_power", "expander_math",
     "subheader_financial", "metric_old_bill", "metric_new_bill",
     "metric_savings", "chart_bill" >>

Idle(p) == p \in {"idle", "done", "crashed"}

Init ==
  /\ pc = "idle"
  /\ runs = 0
  /\ city = "known"                       \* "London"
  /\ panel_power = FromRatio(50, 10)      \* 5.0
  /\ monthly_usage = 350
  /\ tariff = FromRatio(80, 10)           \* 8.0
  /\ api_key \in ApiKeys
  /\ response = None /\ data = None
  /\ clouds = None /\ temp_k = None /\ temp_c = None
  /\ cloud_efficiency = None /\ heat_loss = None /\ temp_efficiency = None
  /\ actual_power = None /\ daily_production = None
  /\ monthly_production = None
  /\ old_bill = None /\ net_usage = None /\ new_bill = None /\ savings = None
  /\ pos = 0 /\ shown = {} /\ coverage = None /\ error = "none"
  /\ exc = "none"
  /\ prev = None

Unbound ==
  /\ response' = None /\ data' = None
  /\ clouds' = None /\ temp_k' = None /\ temp_c' = None
  /\ cloud_efficiency' = None /\ heat_loss' = None /\ temp_efficiency' = None
  /\ actual_power' = None /\ daily_production' = None
  /\ monthly_production' = None
  /\ old_bill' = None /\ net_usage' = None /\ new_bill' = None
  /\ savings' = None

\* Lines 48 to 57, st.button false: the user edits the widgets without
\* pressing the button; the script runs again from the top on an empty
\* page and skips the handler.
Rerun ==
  /\ Idle(pc)
  /\ city' \in Cities
  /\ panel_power' \in PanelPowers
  /\ monthly_usage' \in MonthlyUsages
  /\ tariff' \in Tariffs
  /\ Unbound
  /\ pos' = 0 /\ shown' = {} /\ coverage' = None /\ error' = "none"
  /\ exc' = "none"
  /\ pc' = "idle"
  /\ UNCHANGED <<runs, api_key, prev>>

\* Lines 48 to 57, st.button true: the user presses the button; the script
\* runs again from the top, on an empty page, with the widgets as they are.
Press ==
  /\ Idle(pc)
  /\ runs < MaxRuns
  /\ runs' = runs + 1
  /\ Unbound
  /\ pos' = 0 /\ shown' = {} /\ coverage' = None /\ error' = "none"
  /\ exc' = "none"
  /\ pc' = "secret"
  /\ UNCHANGED <<widgets, api_key>>

Click ==
  /\ Press
  /\ UNCHANGED prev

\* Line 60, outside the try: a missing secret raises and nothing catches it
SecretMissing ==
  /\ pc = "secret"
  /\ api_key = "missing"
  /\ exc' = "KeyError"
  /\ pc' = "crashed"
  /\ UNCHANGED <<runs, widgets, api_key, response, data, mined, results, page,
                 prev>>

\* Lines 60 to 62
ReadSecret ==
  /\ pc = "secret"
  /\ api_key # "missing"
  /\ pc' = "request"
  /\ UNCHANGED <<runs, widgets, api_key, response, data, mined, results, page,
                 exc, prev>>

\* An exception raised inside the try, lines 64 to 161
Raise(e) ==
  /\ exc' = e
  /\ pc' = "except"
  /\ UNCHANGED <<runs, widgets, api_key, response, data, mined, results, page,
                 prev>>

\* Line 65: the request fails (no network, no name resolution, ...)
RequestRaises ==
  /\ pc = "request"
  /\ Raise("ConnectionError")

\* Line 65: the service answers 200 with a weather report
RequestReturnsReport ==
  /\ pc = "request"
  /\ StatusOk \in ServerStatuses(api_key, city)
  /\ \E c \in CloudValues : \E t \in TempsK :
       response' = [status_code |-> StatusOk, body |-> Report(c, t)]
  /\ pc' = "status"
  /\ UNCHANGED <<runs, widgets, api_key, data, mined, results, page, exc, prev>>

\* Line 65: the service answers 200 with a body that holds no usable report
RequestReturnsBadBody ==
  /\ pc = "request"
  /\ StatusOk \in ServerStatuses(api_key, city)
  /\ \E b \in BadBodies :
       response' = [status_code |-> StatusOk, body |-> BadBody(b)]
  /\ pc' = "status"
  /\ UNCHANGED <<runs, widgets, api_key, data, mined, results, page, exc, prev>>

\* Line 65: the service answers with an error status
RequestReturnsError ==
  /\ pc = "request"
  /\ \E st \in ServerStatuses(api_key, city) \ {StatusOk} :
       response' = [status_code |-> st, body |-> ErrorBody]
  /\ pc' = "status"
  /\ UNCHANGED <<runs, widgets, api_key, data, mined, results, page, exc, prev>>

\* IsOk with the status never looked at
IsOkAlways(r) == TRUE

\* response.status_code == 200
IsOk(r) == r.status_code = StatusOk

\* Line 67, true
StatusIsOk ==
  /\ pc = "status"
  /\ IsOk(response)
  /\ pc' = "json"
  /\ UNCHANGED <<runs, widgets, api_key, response, data, mined, results, page,
                 exc, prev>>

\* Lines 67, 163 and 164: any other status
CityNotFound ==
  /\ pc = "status"
  /\ ~IsOk(response)
  /\ error' = "not_found"
  /\ pc' = "done"
  /\ UNCHANGED <<runs, widgets, api_key, response, data, mined, results, pos,
                 shown, coverage, exc, prev>>

\* Line 68, on a body that is no JSON
JsonRaises ==
  /\ pc = "json"
  /\ ~response.body.json
  /\ Raise("JSONDecodeError")

\* Line 68
ParseJson ==
  /\ pc = "json"
  /\ response.body.json
  /\ data' = response.body
  /\ pc' = "mining"
  /\ UNCHANGED <<runs, widgets, api_key, response, mined, results, page, exc,
                 prev>>

\* data has the keys ks
HasFields(d, ks) == ks \subseteq d.keys

\* the value of the field k of data is a number
IsNumeric(d, k) == k \in d.numbers

\* Line 71: clouds, bound unless the read raises
MinedClouds(d) == IF HasFields(d, {"clouds"}) THEN d.clouds ELSE None

\* Line 72: temp_k, bound when line 71 passed and the read does not raise
MinedTempK(d) == IF HasFields(d, {"clouds", "temp"}) THEN d.temp ELSE None

\* Line 73: temp_c, bound when lines 71 and 72 passed and temp_k is a number
MinedTempC(d) ==
  IF HasFields(d, {"clouds", "temp"}) /\ IsNumeric(d, "temp")
  THEN TempC(d.temp) ELSE None

\* Lines 71 to 75 up to the statement that raises: the locals of the
\* statements before it are bound
MinedUntilRaise ==
  /\ clouds' = MinedClouds(data)
  /\ temp_k' = MinedTempK(data)
  /\ temp_c' = MinedTempC(data)
  /\ pc' = "except"
  /\ UNCHANGED <<runs, widgets, api_key, response, data, results, page, prev>>

\* Lines 71, 72, 74 and 75, on a JSON that lacks the field read
MiningKeyError ==
  /\ pc = "mining"
  /\ \/ ~HasFields(data, {"clouds", "temp"})
     \/ IsNumeric(data, "temp") /\ ~HasFields(data, {"lat", "lon"})
  /\ exc' = "KeyError"
  /\ MinedUntilRaise

\* Line 73, on a temperature that is no number
MiningTypeError ==
  /\ pc = "mining"
  /\ HasFields(data, {"clouds", "temp"})
  /\ ~IsNumeric(data, "temp")
  /\ exc' = "TypeError"
  /\ MinedUntilRaise

\* Lines 71 to 75
DataMining ==
  /\ pc = "mining"
  /\ HasFields(data, Fields)
  /\ IsNumeric(data, "temp")
  /\ clouds' = MinedClouds(data)
  /\ temp_k' = MinedTempK(data)
  /\ temp_c' = MinedTempC(data)
  /\ pc' = "calc"
  /\ UNCHANGED <<runs, widgets, api_key, response, data, results, page, exc,
                 prev>>

\* Line 79, on a cloud value that is no number: clouds / 100 raises
CalculationTypeError ==
  /\ pc = "calc"
  /\ ~IsNumeric(data, "clouds")
  /\ Raise("TypeError")

\* Lines 79 to 92, in the order of the code
Calculation ==
  /\ cloud_efficiency' = CloudEfficiency(clouds)
  /\ heat_loss' = HeatLoss(temp_c)
  /\ temp_efficiency' = TempEfficiency(heat_loss')
  /\ actual_power' = ActualPower(panel_power, cloud_efficiency', temp_efficiency')
  /\ daily_production' = DailyProduction(actual_power')
  /\ monthly_production' = MonthlyProduction(daily_production')
  /\ old_bill' = OldBill(monthly_usage, tariff)
  /\ net_usage' = NetUsage(monthly_usage, monthly_production')
  /\ new_bill' = NewBill(net_usage', tariff)
  /\ savings' = Savings(old_bill', new_bill')

Calculate ==
  /\ pc = "calc"
  /\ IsNumeric(data, "clouds")
  /\ Calculation
  /\ pos' = 1
  /\ pc' = "render"
  /\ UNCHANGED <<runs, widgets, api_key, response, data, mined, shown,
                 coverage, error, exc, prev>>

\* Lines 99 to 158: the next call of the dashboard puts its element on the page
Render ==
  /\ pc = "render"
  /\ pos <= Len(Dashboard)
  /\ shown' = shown \cup {Dashboard[pos]}
  /\ pos' = pos + 1
  /\ pc' = IF pos = Len(Dashboard) THEN "success" ELSE "render"
  /\ UNCHANGED <<runs, widgets, api_key, response, data, mined, results,
                 coverage, error, exc, prev>>

\* Lines 99 to 158: the next call of the dashboard raises instead
RenderRaises ==
  /\ pc = "render"
  /\ pos <= Len(Dashboard)
  /\ Raise("RenderError")

\* savings > 0
HasSavings(s) == FLt(FZero, s)

\* Line 160, false: no message
NoSuccess ==
  /\ pc = "success"
  /\ ~HasSavings(savings)
  /\ pc' = "done"
  /\ UNCHANGED <<runs, widgets, api_key, response, data, mined, results, page,
                 exc, prev>>

\* Line 161: monthly_production / monthly_usage with monthly_usage == 0
SuccessDivides ==
  /\ pc = "success"
  /\ HasSavings(savings)
  /\ monthly_usage = 0
  /\ Raise("ZeroDivisionError")

\* Lines 160 and 161
SuccessMessage ==
  /\ pc = "success"
  /\ HasSavings(savings)
  /\ monthly_usage # 0
  /\ coverage' = CoverageShown(monthly_production, monthly_usage)
  /\ shown' = shown \cup {"success"}
  /\ pc' = "done"
  /\ UNCHANGED <<runs, widgets, api_key, response, data, mined, results, pos,
                 error, exc, prev>>

\* Lines 166 to 168
Except ==
  /\ pc = "except"
  /\ error' = "connection"
  /\ pc' = "done"
  /\ UNCHANGED <<runs, widgets, api_key, response, data, mined, results, pos,
                 shown, coverage, exc, prev>>

Next ==
  \/ Rerun
  \/ Click
  \/ SecretMissing
  \/ ReadSecret
  \/ RequestRaises
  \/ RequestReturnsReport
  \/ RequestReturnsBadBody
  \/ RequestReturnsError
  \/ StatusIsOk
  \/ CityNotFound
  \/ JsonRaises
  \/ ParseJson
  \/ MiningKeyError
  \/ MiningTypeError
  \/ DataMining
  \/ CalculationTypeError
  \/ Calculate
  \/ Render
  \/ RenderRaises
  \/ NoSuccess
  \/ SuccessDivides
  \/ SuccessMessage
  \/ Except

Spec == Init /\ [][Next]_vars

(***************************************************************************)
(* Two runs of the handler for the same system, each on a weather report:  *)
(* the key is valid, the city is known, the service answers with reports   *)
(* and the calls of the dashboard do not raise.  The first run starts      *)
(* before line 79, with its report mined; when it is over the user presses *)
(* the button again, and what the finished run calculated is kept in prev, *)
(* which the code does not have: it is there for the properties that       *)
(* compare two runs.                                                       *)
(***************************************************************************)
InitPair ==
  /\ pc = "calc"
  /\ runs = 1
  /\ city = "known"
  /\ panel_power \in PanelPowers
  /\ monthly_usage = 350
  /\ tariff = FromRatio(80, 10)
  /\ api_key = "valid"
  /\ \E c \in CloudValues : \E t \in TempsK :
       /\ response = [status_code |-> StatusOk, body |-> Report(c, t)]
       /\ data = Report(c, t)
       /\ clouds = c
       /\ temp_k = t
       /\ temp_c = TempC(t)
  /\ cloud_efficiency = None /\ heat_loss = None /\ temp_efficiency = None
  /\ actual_power = None /\ daily_production = None
  /\ monthly_production = None
  /\ old_bill = None /\ net_usage = None /\ new_bill = None /\ savings = None
  /\ pos = 0 /\ shown = {} /\ coverage = None /\ error = "none"
  /\ exc = "none"
  /\ prev = None

\* Lines 48 to 57, st.button true, after a run that calculated
PressAgain ==
  /\ savings # None
  /\ Press
  /\ prev' = [clouds |-> clouds, temp_c |-> temp_c,
              temp_efficiency |-> temp_efficiency,
              actual_power |-> actual_power]

NextPair ==
  \/ Calculate
  \/ Render
  \/ NoSuccess
  \/ SuccessMessage
  \/ PressAgain
  \/ ReadSecret
  \/ RequestReturnsReport
  \/ StatusIsOk
  \/ ParseJson
  \/ DataMining

SpecPair == InitPair /\ [][NextPair]_vars

(***************************************************************************)
(* What the properties speak of.                                           *)
(***************************************************************************)
\* The calculation of lines 79 to 92 has been done in this run
Calculated == savings # None

\* The elements that show a result: the map, the metrics, the charts and
\* the success message
ResultElements ==
  {"map", "metric_cloud_cover", "metric_temperature", "metric_output",
   "chart_power", "metric_old_bill", "metric_new_bill", "metric_savings",
   "chart_bill", "success"}

\* The run is over
RunOver == runs > 0 /\ pc \in {"done", "crashed"}

\* The fetch of this run did not deliver a well-formed weather report
NoSnapshot ==
  \/ exc = "ConnectionError"
  \/ /\ response # None
     /\ (response.status_code # StatusOk \/ ~WellFormed(response.body))

\* The inputs the data model calls well formed
WellFormedInputs ==
  /\ FLt(FZero, panel_power)
  /\ monthly_usage >= 0
  /\ FLe(FZero, tariff)
  /\ clouds \in 0..100

\* A fraction in (0, 1]
IsFraction(x) == FLt(FZero, x) /\ FLe(x, FromInt(1))

\* The temperature at which heat_loss reaches 1: 25 + 1 / 0.005
ZeroOutputTemp == RatedTemp + 1000 \div 5

FAbs(x) == [x EXCEPT !.sg = Abs(x.sg)]

\* x is within a relative 2^-50 of the float y
Near(x, y) == FLe(FAbs(FSub(x, y)), FMul(FAbs(y), FRound(1, <<1>>, -50)))

(***************************************************************************)
(* C1  A run whose weather fetch delivers no well-formed report (the       *)
(* request raises, the status is not 200, the body is no JSON, lacks a     *)
(* field or holds a field that is no number) never calculates and never    *)
(* shows a result element; and a run                                       *)
(* for a city the service cannot resolve calculates nothing and, once the  *)
(* service has answered, ends on the not-found message.                    *)
(***************************************************************************)
C1_NoCalculationWithoutSnapshot ==
  /\ NoSnapshot => ~Calculated /\ shown \cap ResultElements = {}
  /\ city = "unknown" /\ runs > 0 => ~Calculated
  /\ city = "unknown" /\ RunOver /\ response # None => error = "not_found"

C1_Witness ==
  /\ RunOver
  /\ city = "unknown"
  /\ response # None
  /\ response.status_code = StatusNotFound
  /\ error = "not_found"

(***************************************************************************)
(* C2  As claimed: when a run is over, a credential, network or parse      *)
(* failure has been shown as the connection error, and "City not found"    *)
(* is shown only when the city could not be resolved.                      *)
(***************************************************************************)
C2_FailuresClassified ==
  RunOver =>
    /\ api_key # "valid" => error = "connection"
    /\ exc \in {"ConnectionError", "JSONDecodeError", "KeyError", "TypeError"}
         => error = "connection"
    /\ error = "not_found" => city = "unknown"

(***************************************************************************)
(* C3  As claimed: the page never shows an error message together with a   *)
(* result element.                                                         *)
(***************************************************************************)
C3_NoPartialResult ==
  ~(error # "none" /\ shown \cap ResultElements # {})

(***************************************************************************)
(* C4  As claimed: for clouds in [0, 100] and any temperature, both        *)
(* efficiencies are fractions in (0, 1].                                   *)
(***************************************************************************)
C4_Original ==
  Calculated /\ clouds \in 0..100
    => IsFraction(cloud_efficiency) /\ IsFraction(temp_efficiency)

(***************************************************************************)
(* C4, amended: for clouds in [0, 100], cloud_efficiency is a fraction in  *)
(* (0, 1] at any temperature, and temp_efficiency is one when the          *)
(* temperature is below 225 degrees Celsius.                               *)
(***************************************************************************)
C4_FractionsBelowZeroOutputTemp ==
  Calculated /\ clouds \in 0..100
    => /\ IsFraction(cloud_efficiency)
       /\ FLt(temp_c, FromInt(ZeroOutputTemp)) => IsFraction(temp_efficiency)

C4_Witness ==
  /\ Calculated
  /\ clouds = 100
  /\ FLt(FromInt(ZeroOutputTemp - 1), temp_c)
  /\ FLt(temp_c, FromInt(ZeroOutputTemp))
  /\ IsFraction(temp_efficiency)
  /\ FLt(cloud_efficiency, FromRatio(2, 10))

(***************************************************************************)
(* C5  As claimed: for well-formed inputs and any temperature, savings is  *)
(* not negative.                                                           *)
(***************************************************************************)
C5_Original ==
  Calculated /\ WellFormedInputs => FLe(FZero, savings)

(***************************************************************************)
(* C5, amended: for well-formed inputs and a temperature of at most 225    *)
(* degrees Celsius, savings is not negative (new_bill is at most           *)
(* old_bill).                                                              *)
(***************************************************************************)
C5_SavingsNotNegative ==
  Calculated /\ WellFormedInputs /\ FLe(temp_c, FromInt(ZeroOutputTemp))
    => FLe(FZero, savings) /\ FLe(new_bill, old_bill)

C5_Witness ==
  /\ Calculated
  /\ WellFormedInputs
  /\ temp_c = FromInt(ZeroOutputTemp)
  /\ monthly_usage > 0
  /\ FLt(FZero, tariff)
  /\ savings = FZero

(***************************************************************************)
(* C6  Net export is not modelled: net_usage is max(0, monthly_usage -     *)
(* monthly_production) and never negative, and when monthly_production is  *)
(* at least monthly_usage, net_usage and new_bill are 0 and savings is     *)
(* old_bill.                                                               *)
(***************************************************************************)
C6_NoNetExport ==
  Calculated =>
    LET diff == FSub(FromInt(monthly_usage), monthly_production)
    IN  /\ FLe(FZero, net_usage)
        /\ net_usage = (IF FLt(FZero, diff) THEN diff ELSE FZero)
        /\ FLe(FromInt(monthly_usage), monthly_production)
             => net_usage = FZero /\ new_bill = FZero /\ savings = old_bill

C6_Witness ==
  /\ Calculated
  /\ monthly_usage > 0
  /\ FLt(FromInt(monthly_usage), monthly_production)
  /\ FLt(FZero, old_bill)
  /\ savings = old_bill

(***************************************************************************)
(* C7  As claimed: for a positive panel_power and any fixed temperature,   *)
(* of two reports with cloud percentages c1 < c2 in [0, 100] the second    *)
(* gives the strictly smaller actual_power.                                *)
(***************************************************************************)
SameSystemTwoReports ==
  /\ prev # None
  /\ Calculated
  /\ FLt(FZero, panel_power)
  /\ prev.clouds \in 0..100
  /\ clouds \in 0..100

C7_Original ==
  SameSystemTwoReports /\ temp_c = prev.temp_c /\ prev.clouds < clouds
    => FLt(actual_power, prev.actual_power)

(***************************************************************************)
(* C7, amended: the same for any fixed temperature below 225 degrees       *)
(* Celsius, and whole cloud percentages.                                   *)
(***************************************************************************)
C7_CloudMonotone ==
  /\ SameSystemTwoReports
  /\ temp_c = prev.temp_c
  /\ FLt(temp_c, FromInt(ZeroOutputTemp))
  /\ prev.clouds < clouds
  => FLt(actual_power, prev.actual_power)

C7_Witness ==
  /\ SameSystemTwoReports
  /\ temp_c = prev.temp_c
  /\ FLt(FromInt(ZeroOutputTemp - 1), temp_c)
  /\ FLt(temp_c, FromInt(ZeroOutputTemp))
  /\ prev.clouds = 50
  /\ clouds = 100
  /\ FLt(actual_power, prev.actual_power)

(***************************************************************************)
(* C8  For a positive panel_power and a fixed cloud percentage in          *)
(* [0, 100]: of two reports with temperatures 25 <= t1 < t2 the second     *)
(* gives the strictly smaller actual_power; at a temperature of at most 25 *)
(* temp_efficiency is 1, and two such temperatures give the same           *)
(* actual_power.                                                           *)
(***************************************************************************)
C8_TemperatureMonotone ==
  SameSystemTwoReports /\ clouds = prev.clouds =>
    /\ FLe(FromInt(RatedTemp), prev.temp_c) /\ FLt(prev.temp_c, temp_c)
         => FLt(actual_power, prev.actual_power)
    /\ FLe(temp_c, FromInt(RatedTemp)) => temp_efficiency = FromInt(1)
    /\ FLe(temp_c, FromInt(RatedTemp)) /\ FLe(prev.temp_c, FromInt(RatedTemp))
         => actual_power = prev.actual_power

C8_Witness ==
  /\ SameSystemTwoReports
  /\ clouds = prev.clouds
  /\ prev.temp_c = FromInt(RatedTemp)
  /\ FLt(prev.temp_c, temp_c)
  /\ FLt(temp_c, FromInt(RatedTemp + 1))
  /\ FLt(actual_power, prev.actual_power)

(***************************************************************************)
(* C9  As claimed: clouds = 100 gives cloud_efficiency exactly 0.2, and    *)
(* panel_power 5, 25 degrees Celsius, monthly_usage 350 and tariff 8 give  *)
(* exactly actual_power 1, monthly_production 150 = actual_power * 150,    *)
(* net_usage 200, new_bill 1600 and savings 1200.                          *)
(***************************************************************************)
Scenario2 ==
  /\ Calculated
  /\ panel_power = FromInt(5)
  /\ clouds = 100
  /\ temp_c = FromInt(RatedTemp)
  /\ monthly_usage = 350
  /\ tariff = FromInt(8)

C9_Original ==
  /\ Calculated /\ clouds = 100 => cloud_efficiency = FromRatio(2, 10)
  /\ Scenario2 =>
       /\ actual_power = FromInt(1)
       /\ monthly_production = FromInt(150)
       /\ monthly_production = FMul(actual_power, FromInt(150))
       /\ net_usage = FromInt(200)
       /\ new_bill = FromInt(1600)
       /\ savings = FromInt(1200)

(***************************************************************************)
(* C9, amended: the same up to the rounding of the float arithmetic.       *)
(* clouds = 100 gives a cloud_efficiency just below 0.2, within a relative *)
(* 2^-50 of it; in the scenario actual_power, monthly_production,          *)
(* net_usage, new_bill and savings are within a relative 2^-50 of 1, 150,  *)
(* 200, 1600 and 1200, monthly_production is actual_power * 150 as         *)
(* computed, and the bills print as 1600 and 1200 under the ".0f" format.  *)
(***************************************************************************)
C9_FullCloudUpToRounding ==
  /\ Calculated /\ clouds = 100 =>
       /\ Near(cloud_efficiency, FromRatio(2, 10))
       /\ FLt(cloud_efficiency, FromRatio(2, 10))
  /\ Scenario2 =>
       /\ Near(actual_power, FromInt(1))
       /\ Near(monthly_production, FromInt(150))
       /\ monthly_production = FMul(actual_power, FromInt(150))
       /\ Near(net_usage, FromInt(200))
       /\ Near(new_bill, FromInt(1600))
       /\ Near(savings, FromInt(1200))
       /\ FRoundToInt(new_bill) = 1600
       /\ FRoundToInt(savings) = 1200

C9_Witness ==
  /\ Scenario2
  /\ pc = "done"
  /\ "metric_savings" \in shown
  /\ actual_power # FromInt(1)
  /\ FLt(savings, FromInt(1200))

(***************************************************************************)
(* C10  As claimed: whenever savings > 0 the divisor monthly_usage is not  *)
(* zero, and for well-formed inputs the percentage the success message     *)
(* prints lies in (0, 100].                                                *)
(***************************************************************************)
C10_CoverageDefined ==
  /\ Calculated /\ HasSavings(savings) => monthly_usage # 0
  /\ "success" \in shown /\ WellFormedInputs => coverage \in 1..100

====
